---- MODULE Spec2Model ----
(***************************************************************************)
(* Model of the telegram-auth verification routine (src/verify.go).        *)
(*                                                                         *)
(* Text is a sequence of byte values (ASCII codes), so that trimming,      *)
(* parsing, hex decoding, "key=value" formatting and byte-wise sorting are *)
(* computed as the Go code computes them.                                  *)
(*                                                                         *)
(* Go's int64 (strconv.ParseInt bitSize 64, time.Duration, the seconds of  *)
(* time.Time) is modelled as a two's-complement integer of IntBits bits,   *)
(* and time.Second as Second ticks instead of 1e9 nanoseconds; seconds and *)
(* durations share one width, as in Go.                                    *)
(*                                                                         *)
(* SHA-256 and HMAC-SHA256 are modelled as collision-free encodings of     *)
(* their inputs (the standard idealisation of a MAC).                      *)
(***************************************************************************)
EXTENDS Integers, Sequences, FiniteSets, TLC

\* Width in bits of the model's int64 (64 in Go).
IntBits == 16

\* time.Second: ticks of time.Duration per second (1e9 in Go).
Second == 4

MaxInt64 == 2^(IntBits - 1) - 1
MinInt64 == -(2^(IntBits - 1))
MaxUint64 == 2^IntBits - 1

\* Two's-complement wrap-around of int64 arithmetic.
Wrap64(x) == ((x - MinInt64) % (2^IntBits)) + MinInt64

\* Go's truncated integer division and remainder.
Quo(a, b) == IF a >= 0 THEN a \div b ELSE -((-a) \div b)
Rem(a, b) == a - b * Quo(a, b)

----------------------------------------------------------------------------
\* Text literals (ASCII).

KeyHash == <<104, 97, 115, 104>>
KeyID == <<105, 100>>
KeyAuthDate == <<97, 117, 116, 104, 95, 100, 97, 116, 101>>
KeyUsername == <<117, 115, 101, 114, 110, 97, 109, 101>>
KeyFirstName == <<102, 105, 114, 115, 116, 95, 110, 97, 109, 101>>
KeyLastName == <<108, 97, 115, 116, 95, 110, 97, 109, 101>>
KeyPhotoURL == <<112, 104, 111, 116, 111, 95, 117, 114, 108>>

\* Go's map index expression query[k]: the zero value "" for a missing key.
MapGet(m, k) == IF k \in DOMAIN m THEN m[k] ELSE <<>>

----------------------------------------------------------------------------
\* strings.TrimSpace (ASCII white space: \t \n \v \f \r and space).

IsSpace(c) == c \in {9, 10, 11, 12, 13, 32}

\* The text from its first to its last byte that is not white space.
TrimSpace(s) ==
    LET keep == {i \in 1..Len(s) : ~IsSpace(s[i])}
    IN  IF keep = {} THEN <<>>
        ELSE SubSeq(s, CHOOSE i \in keep : \A j \in keep : i <= j,
                       CHOOSE i \in keep : \A j \in keep : i >= j)

----------------------------------------------------------------------------
\* strconv.ParseInt(s, 10, 64) and strconv.FormatInt(n, 10).

IsDigit(c) == c >= 48 /\ c <= 57

\* strconv.ParseUint(s, 10, 64): [ok, n]; a syntax or range error is ok = FALSE.
RECURSIVE ParseUintFrom(_, _)
ParseUintFrom(s, n) ==
    IF s = <<>> THEN [ok |-> TRUE, n |-> n]
    ELSE IF ~IsDigit(Head(s)) THEN [ok |-> FALSE, n |-> 0]
    ELSE LET n1 == n * 10 + (Head(s) - 48)
         IN  IF n1 > MaxUint64 THEN [ok |-> FALSE, n |-> 0]
             ELSE ParseUintFrom(Tail(s), n1)

ParseUint(s) ==
    IF s = <<>> THEN [ok |-> FALSE, n |-> 0] ELSE ParseUintFrom(s, 0)

ParseInt(s) ==
    IF s = <<>> THEN [ok |-> FALSE, n |-> 0]
    ELSE LET neg == Head(s) = 45
             s1 == IF Head(s) = 43 \/ Head(s) = 45 THEN Tail(s) ELSE s
             un == ParseUint(s1)
             cutoff == MaxInt64 + 1
         IN  IF ~un.ok THEN [ok |-> FALSE, n |-> 0]
             ELSE IF ~neg /\ un.n >= cutoff THEN [ok |-> FALSE, n |-> 0]
             ELSE IF neg /\ un.n > cutoff THEN [ok |-> FALSE, n |-> 0]
             ELSE [ok |-> TRUE, n |-> IF neg THEN -un.n ELSE un.n]

RECURSIVE FormatUint(_)
FormatUint(n) ==
    IF n < 10 THEN <<48 + n>> ELSE Append(FormatUint(n \div 10), 48 + (n % 10))

FormatInt(n) == IF n < 0 THEN <<45>> \o FormatUint(-n) ELSE FormatUint(n)

----------------------------------------------------------------------------
\* encoding/hex.

HexDigit(v) == IF v < 10 THEN 48 + v ELSE 87 + v

\* hex.EncodeToString: two lower-case digits per byte, the high one first.
EncodeToString(b) ==
    [i \in 1..(2 * Len(b)) |->
        IF i % 2 = 1 THEN HexDigit(b[(i + 1) \div 2] \div 16)
        ELSE HexDigit(b[i \div 2] % 16)]

\* fromHexChar: the value of a hex digit of either case, -1 for any other byte.
FromHexChar(c) ==
    IF c >= 48 /\ c <= 57 THEN c - 48
    ELSE IF c >= 97 /\ c <= 102 THEN c - 87
    ELSE IF c >= 65 /\ c <= 70 THEN c - 55
    ELSE -1

\* hex.DecodeString: [ok, b]; an odd length or a non-hex byte is an error.
DecodeString(s) ==
    IF Len(s) % 2 = 1 THEN [ok |-> FALSE, b |-> <<>>]
    ELSE IF \E i \in 1..Len(s) : FromHexChar(s[i]) < 0 THEN [ok |-> FALSE, b |-> <<>>]
    ELSE [ok |-> TRUE,
          b |-> [i \in 1..(Len(s) \div 2) |->
                    FromHexChar(s[2 * i - 1]) * 16 + FromHexChar(s[2 * i])]]

----------------------------------------------------------------------------
\* crypto/sha256 and crypto/hmac, collision-free.

Sum256(msg) == <<83>> \o msg

HmacSum(key, msg) == <<Len(key)>> \o key \o msg

HmacEqual(a, b) == a = b

----------------------------------------------------------------------------
\* The canonical check string: "key=value" pairs of every field but hash,
\* sorted byte-wise and joined by "\n".

\* Go's string comparison a < b: byte-wise, a proper prefix first.
StrLess(a, b) ==
    \E i \in 1..Len(b) :
        /\ \A j \in 1..(i - 1) : j <= Len(a) /\ a[j] = b[j]
        /\ (i > Len(a) \/ a[i] < b[i])

Sprintf(key, value) == key \o <<61>> \o value

RECURSIVE SortStrings(_, _)
SortStrings(query, keys) ==
    IF keys = {} THEN <<>>
    ELSE LET k == CHOOSE k \in keys :
                    \A j \in keys :
                        ~StrLess(Sprintf(j, query[j]), Sprintf(k, query[k]))
         IN  <<Sprintf(k, query[k])>> \o SortStrings(query, keys \ {k})

RECURSIVE Join(_)
Join(pairs) ==
    IF pairs = <<>> THEN <<>>
    ELSE IF Len(pairs) = 1 THEN pairs[1]
    ELSE pairs[1] \o <<10>> \o Join(Tail(pairs))

\* Mutant: only the required fields are signed.
DataCheckString_RequiredOnly(query) ==
    Join(SortStrings(query, DOMAIN query \cap {KeyID, KeyAuthDate}))

DataCheckString(query) == Join(SortStrings(query, DOMAIN query \ {KeyHash}))

\* verifyHash: TRUE for a nil error, FALSE for ErrTelegramHashInvalid.
verifyHash(query, botToken, expectedHash) ==
    LET expectedHashBytes == DecodeString(TrimSpace(expectedHash))
        secret == Sum256(botToken)
        calculatedHashBytes == HmacSum(secret, DataCheckString(query))
    IN  expectedHashBytes.ok /\ HmacEqual(calculatedHashBytes, expectedHashBytes.b)

----------------------------------------------------------------------------
\* package time: Time is [ext: seconds since year 1, nsec], Duration is ticks.

\* Seconds from year 1 to 1970 (62135596800 in Go), scaled to the model's int64:
\* above the seconds MaxDuration spans at the widths given, below MaxInt64.
unixToInternal == 10000

Minute == 60 * Second
MaxDuration == MaxInt64
MinDuration == MinInt64

\* time.Unix(sec, nsec) with 0 <= nsec < Second: the int64 sum wraps around.
Unix(sec, nsec) == [ext |-> Wrap64(sec + unixToInternal), nsec |-> nsec]

\* Time.addSec: saturating.
addSec(ext, d) ==
    LET sum == Wrap64(ext + d)
    IN  IF (sum > ext) = (d > 0) THEN sum
        ELSE IF d > 0 THEN MaxInt64
        ELSE -MaxInt64

TimeAdd(t, d) ==
    LET dsec == Quo(d, Second)
        nsec == t.nsec + Rem(d, Second)
    IN  IF nsec >= Second
        THEN [ext |-> addSec(t.ext, Wrap64(dsec + 1)), nsec |-> nsec - Second]
        ELSE IF nsec < 0
        THEN [ext |-> addSec(t.ext, Wrap64(dsec - 1)), nsec |-> nsec + Second]
        ELSE [ext |-> addSec(t.ext, dsec), nsec |-> nsec]

TimeAfter(t, u) == t.ext > u.ext \/ (t.ext = u.ext /\ t.nsec > u.nsec)

TimeBefore(t, u) == t.ext < u.ext \/ (t.ext = u.ext /\ t.nsec < u.nsec)

TimeEqual(t, u) == t.ext = u.ext /\ t.nsec = u.nsec

\* Time.Sub: the difference, saturated to the range of Duration.
TimeSub(t, u) ==
    LET d == Wrap64(Wrap64(Wrap64(t.ext - u.ext) * Second) + (t.nsec - u.nsec))
    IN  IF TimeEqual(TimeAdd(u, d), t) THEN d
        ELSE IF TimeBefore(t, u) THEN MinDuration
        ELSE MaxDuration

----------------------------------------------------------------------------
\* Constants, errors and records of verify.go.

DefaultAuthTTL == 5 * Minute
DefaultClockSkew == 30 * Second

ErrBotTokenRequired == "bot token is required"
ErrTelegramIDRequired == "telegram id is required"
ErrTelegramIDInvalid == "telegram id is invalid"
ErrTelegramHashRequired == "telegram hash is required"
ErrTelegramHashInvalid == "telegram hash is invalid"
ErrTelegramAuthDateRequired == "telegram auth_date is required"
ErrTelegramAuthDateInvalid == "telegram auth_date is invalid"
ErrTelegramAuthDateExpired == "telegram auth_date is expired"
ErrTelegramAuthDateFuture == "telegram auth_date is from future"
Nil == "nil"

\* AuthData{}: the zero value.
ZeroAuthData ==
    [UserID |-> 0, Username |-> <<>>, FirstName |-> <<>>, LastName |-> <<>>,
     PhotoURL |-> <<>>, AuthDateUnix |-> 0]

Fail(err) == [data |-> ZeroAuthData, err |-> err]

\* VerifyConfig{}: zero durations and a nil Now (the empty sequence).
ZeroConfig == [AuthTTL |-> 0, ClockSkew |-> 0, Now |-> <<>>]

\* Mutant: only a negative maximum age selects the default.
EffAuthTTL_Strict(config) ==
    IF config.AuthTTL < 0 THEN DefaultAuthTTL ELSE config.AuthTTL

\* The effective policy, lines 95-108; wall is what time.Now returns.
EffAuthTTL(config) == IF config.AuthTTL <= 0 THEN DefaultAuthTTL ELSE config.AuthTTL

EffClockSkew(config) ==
    IF config.ClockSkew <= 0 THEN DefaultClockSkew ELSE config.ClockSkew

EffNow(config, wall) == IF config.Now = <<>> THEN wall ELSE config.Now[1]

\* Mutant: an auth_date exactly at now + skew is rejected.
CheckFreshness_StrictSkew(query, userID, authDateUnix, authTTL, clockSkew, now) ==
    LET authDate == Unix(authDateUnix, 0)
    IN  IF ~TimeBefore(authDate, TimeAdd(now, clockSkew))
        THEN [data |-> ZeroAuthData, err |-> ErrTelegramAuthDateFuture]
        ELSE IF TimeSub(now, authDate) > authTTL
        THEN [data |-> ZeroAuthData, err |-> ErrTelegramAuthDateExpired]
        ELSE [data |-> [UserID |-> userID,
                        Username |-> MapGet(query, KeyUsername),
                        FirstName |-> MapGet(query, KeyFirstName),
                        LastName |-> MapGet(query, KeyLastName),
                        PhotoURL |-> MapGet(query, KeyPhotoURL),
                        AuthDateUnix |-> authDateUnix],
              err |-> Nil]

\* Lines 143-160: the freshness window and the record.
CheckFreshness(query, userID, authDateUnix, authTTL, clockSkew, now) ==
    LET authDate == Unix(authDateUnix, 0)
    IN  IF TimeAfter(authDate, TimeAdd(now, clockSkew))
        THEN Fail(ErrTelegramAuthDateFuture)
        ELSE IF TimeSub(now, authDate) > authTTL
        THEN Fail(ErrTelegramAuthDateExpired)
        ELSE [data |-> [UserID |-> userID,
                        Username |-> MapGet(query, KeyUsername),
                        FirstName |-> MapGet(query, KeyFirstName),
                        LastName |-> MapGet(query, KeyLastName),
                        PhotoURL |-> MapGet(query, KeyPhotoURL),
                        AuthDateUnix |-> authDateUnix],
              err |-> Nil]

\* Mutant: auth_date is looked at before id.
CheckFields_DateFirst(query, authTTL, clockSkew, now) ==
    LET idValue == TrimSpace(MapGet(query, KeyID))
        userID == ParseInt(idValue)
        authDateValue == TrimSpace(MapGet(query, KeyAuthDate))
        authDateUnix == ParseInt(authDateValue)
    IN  IF authDateValue = <<>> THEN Fail(ErrTelegramAuthDateRequired)
        ELSE IF ~authDateUnix.ok THEN Fail(ErrTelegramAuthDateInvalid)
        ELSE IF idValue = <<>> THEN Fail(ErrTelegramIDRequired)
        ELSE IF ~userID.ok THEN Fail(ErrTelegramIDInvalid)
        ELSE IF userID.n <= 0 THEN Fail(ErrTelegramIDInvalid)
        ELSE CheckFreshness(query, userID.n, authDateUnix.n, authTTL, clockSkew, now)

\* Lines 119-141: the id and auth_date fields.
CheckFields(query, authTTL, clockSkew, now) ==
    LET idValue == TrimSpace(MapGet(query, KeyID))
        userID == ParseInt(idValue)
        authDateValue == TrimSpace(MapGet(query, KeyAuthDate))
        authDateUnix == ParseInt(authDateValue)
    IN  IF idValue = <<>> THEN Fail(ErrTelegramIDRequired)
        ELSE IF ~userID.ok THEN Fail(ErrTelegramIDInvalid)
        ELSE IF userID.n <= 0 THEN Fail(ErrTelegramIDInvalid)
        ELSE IF authDateValue = <<>> THEN Fail(ErrTelegramAuthDateRequired)
        ELSE IF ~authDateUnix.ok THEN Fail(ErrTelegramAuthDateInvalid)
        ELSE CheckFreshness(query, userID.n, authDateUnix.n, authTTL, clockSkew, now)

\* Mutant: the id and auth_date fields are checked before the signature.
VerifyWithConfig_FieldsFirst(query, botToken0, config, wall) ==
    LET botToken == TrimSpace(botToken0)
        hash == TrimSpace(MapGet(query, KeyHash))
        fields == CheckFields(query, EffAuthTTL(config), EffClockSkew(config),
                              EffNow(config, wall))
    IN  IF botToken = <<>> THEN Fail(ErrBotTokenRequired)
        ELSE IF hash = <<>> THEN Fail(ErrTelegramHashRequired)
        ELSE IF fields.err # Nil THEN fields
        ELSE IF ~verifyHash(query, botToken, hash) THEN Fail(ErrTelegramHashInvalid)
        ELSE fields

\* Mutant: the secret is not trimmed before it is tested for emptiness.
VerifyWithConfig_NoTrim(query, botToken0, config, wall) ==
    LET hash == TrimSpace(MapGet(query, KeyHash))
    IN  IF botToken0 = <<>> THEN Fail(ErrBotTokenRequired)
        ELSE IF hash = <<>> THEN Fail(ErrTelegramHashRequired)
        ELSE IF ~verifyHash(query, botToken0, hash) THEN Fail(ErrTelegramHashInvalid)
        ELSE CheckFields(query, EffAuthTTL(config), EffClockSkew(config),
                         EffNow(config, wall))

VerifyWithConfig(query, botToken0, config, wall) ==
    LET botToken == TrimSpace(botToken0)
        authTTL == EffAuthTTL(config)
        clockSkew == EffClockSkew(config)
        now == EffNow(config, wall)
        hash == TrimSpace(MapGet(query, KeyHash))
    IN  IF botToken = <<>> THEN Fail(ErrBotTokenRequired)
        ELSE IF hash = <<>> THEN Fail(ErrTelegramHashRequired)
        ELSE IF ~verifyHash(query, botToken, hash) THEN Fail(ErrTelegramHashInvalid)
        ELSE CheckFields(query, authTTL, clockSkew, now)

Verify(query, botToken, wall) == VerifyWithConfig(query, botToken, ZeroConfig, wall)

\* Mutant: the last value of the key.
ValuesGet_Last(values, key) ==
    IF Len(values[key]) = 0 THEN <<>> ELSE values[key][Len(values[key])]

\* url.Values.Get: the first value of the key, "" when it has none.
ValuesGet(values, key) ==
    IF Len(values[key]) = 0 THEN <<>> ELSE values[key][1]

VerifyURLValues(values, botToken, wall) ==
    LET query == [key \in DOMAIN values |-> ValuesGet(values, key)]
    IN  Verify(query, botToken, wall)

\* signQuery of verify_test.go: the hex signature of the fields under a token.
signQuery(query, token) ==
    EncodeToString(HmacSum(Sum256(token), DataCheckString(query)))

----------------------------------------------------------------------------
\* Inputs.

\* The wall clock reads NowSec seconds; an injected clock reads InjectedLead
\* seconds and one tick later.
NowSec == 1000
InjectedLead == 200

\* At most this many of the inputs (token, hash, id, auth_date, other fields,
\* maximum age, maximum skew, clock) differ from the plain signed request of the
\* tests; overwriting a field of the request counts as one more.
MaxDeviations == 2

TestBotToken == <<116, 111, 107>>
OtherBotToken == <<98, 111, 116>>

Tokens ==
    {TestBotToken, <<32>> \o TestBotToken \o <<10>>, OtherBotToken, <<>>, <<32, 9>>}

WallClock == Unix(NowSec, 0)
InjectedClock == Unix(NowSec + InjectedLead, 1)

AuthTTLs == {-Second, 0, 10 * Second + 1, MaxDuration}
ClockSkews == {-1, 0, 2 * Second - 1}
Clocks == {<<>>, <<InjectedClock>>}

Configs ==
    {[AuthTTL |-> a, ClockSkew |-> c, Now |-> n] :
        a \in AuthTTLs, c \in ClockSkews, n \in Clocks}

\* An instant in ticks since the Unix epoch, and whole seconds around it.
Ticks(t) == (t.ext - unixToInternal) * Second + t.nsec
FloorSec(x) == IF x >= 0 THEN x \div Second ELSE -((-x + Second - 1) \div Second)
CeilSec(x) == -FloorSec(-x)

\* The auth_date values at and next to every edge of every freshness window,
\* the ends of int64, the ends of what time.Unix and Time.Sub represent.
EdgeDates ==
    UNION {{CeilSec(Ticks(EffNow(c, WallClock)) - EffAuthTTL(c)) - 1,
            CeilSec(Ticks(EffNow(c, WallClock)) - EffAuthTTL(c)),
            FloorSec(Ticks(EffNow(c, WallClock)) + EffClockSkew(c)),
            FloorSec(Ticks(EffNow(c, WallClock)) + EffClockSkew(c)) + 1} :
                c \in Configs}

FarDates ==
    {MaxInt64, MaxInt64 - unixToInternal, MaxInt64 - unixToInternal + 1, MinInt64,
     -1, NowSec}

\* A field is absent (<<>>) or present with a text (<<text>>).
DateChoices ==
    {<<FormatInt(n)>> : n \in EdgeDates \cup FarDates}
        \cup {<<>>, <<<<>>>>, <<<<32>>>>, <<<<49, 120>>>>,
              <<FormatInt(MaxInt64 + 1)>>,
              <<(<<32, 43>> \o FormatInt(NowSec) \o <<10>>)>>}

IDChoices ==
    {<<>>, <<<<9>>>>, <<<<52, 50>>>>, <<<<32, 43, 48, 55, 32>>>>, <<<<48>>>>,
     <<<<45, 49>>>>, <<<<52, 120>>>>, <<FormatInt(MaxInt64 + 1)>>}

\* The other fields: none, the four display fields, or two fields whose names
\* and values hold "=" and "\n".
ExtraChoices ==
    {{},
     {<<KeyUsername, <<106, 100>>>>, <<KeyFirstName, <<74>>>>,
      <<KeyLastName, <<68, 32>>>>, <<KeyPhotoURL, <<104, 58, 47>>>>},
     {<<<<>>, <<97, 10, 61>>>>, <<<<61, 10>>, <<97, 10, 61>>>>}}

\* How the hash field is made: signed under the test token (lower case, or
\* upper case inside white space), signed under the empty token, not hex, hex of
\* odd length, hex of another length, blank, absent.
HashModes ==
    {"lower", "upper", "emptykey", "nothex", "odd", "short", "blank", "absent"}

ToUpper(s) == [i \in 1..Len(s) |-> IF s[i] >= 97 /\ s[i] <= 122 THEN s[i] - 32 ELSE s[i]]

MakeMap(pairs) ==
    [k \in {p[1] : p \in pairs} |-> (CHOOSE p \in pairs : p[1] = k)[2]]

Fields(id, date, extra) ==
    MakeMap(extra \cup {<<KeyID, id[1]>> : x \in {1} \cap DOMAIN id}
                  \cup {<<KeyAuthDate, date[1]>> : x \in {1} \cap DOMAIN date})

HashChoice(mode, fields) ==
    CASE mode = "lower" -> <<signQuery(fields, TestBotToken)>>
      [] mode = "upper" ->
            <<(<<32>> \o ToUpper(signQuery(fields, TestBotToken)) \o <<13, 10>>)>>
      [] mode = "emptykey" -> <<signQuery(fields, <<>>)>>
      [] mode = "nothex" -> <<<<122, 122>>>>
      [] mode = "odd" -> <<<<97, 98, 99>>>>
      [] mode = "short" -> <<<<100, 101, 97, 100>>>>
      [] mode = "blank" -> <<<<32>>>>
      [] mode = "absent" -> <<>>

WithHash(fields, hash) ==
    IF hash = <<>> THEN fields
    ELSE [k \in DOMAIN fields \cup {KeyHash} |->
            IF k = KeyHash THEN hash[1] ELSE fields[k]]

Deviations(token, mode, id, date, extra, cfg) ==
    (IF token = TestBotToken THEN 0 ELSE 1)
    + (IF mode = "lower" THEN 0 ELSE 1)
    + (IF id = <<<<52, 50>>>> THEN 0 ELSE 1)
    + (IF date = <<FormatInt(NowSec)>> THEN 0 ELSE 1)
    + (IF extra = {} THEN 0 ELSE 1)
    + (IF cfg.AuthTTL = 0 THEN 0 ELSE 1)
    + (IF cfg.ClockSkew = 0 THEN 0 ELSE 1)
    + (IF cfg.Now = <<>> THEN 0 ELSE 1)

\* What a call may overwrite a field of a signed request with.
TamperValues == {<<57>>, <<10, 61, 97>>}

\* The later values VerifyURLValues may find under the id key.
LaterValues == {<<>>, <<<<57, 57, 57>>>>}

----------------------------------------------------------------------------
\* State.

VARIABLES
    signed,    \* the request as it was built, hash included
    query,     \* the request as it is handed to the library
    botToken,  \* the secret handed to the library
    config,    \* the VerifyConfig handed to VerifyWithConfig
    values,    \* the url.Values handed to VerifyURLValues
    call,      \* the entry point that ran, "none" before
    result,    \* what it returned: [data, err]
    spare      \* how many more deviations the exploration allows

vars == <<signed, query, botToken, config, values, call, result, spare>>

NoValues == [k \in {} |-> <<>>]
NoResult == [data |-> ZeroAuthData, err |-> "none"]

Init ==
    \E token \in Tokens, mode \in HashModes, id \in IDChoices,
       date \in DateChoices, extra \in ExtraChoices, cfg \in Configs :
        /\ Deviations(token, mode, id, date, extra, cfg) <= MaxDeviations
        /\ spare = MaxDeviations - Deviations(token, mode, id, date, extra, cfg)
        /\ signed = WithHash(Fields(id, date, extra),
                             HashChoice(mode, Fields(id, date, extra)))
        /\ query = signed
        /\ botToken = token
        /\ config = cfg
        /\ values = NoValues
        /\ call = "none"
        /\ result = NoResult

\* A field of a correctly signed request is overwritten; the hash is kept.
Tamper ==
    /\ call = "none"
    /\ query = signed
    /\ spare > 0
    /\ verifyHash(signed, TrimSpace(botToken), MapGet(signed, KeyHash))
    /\ spare' = spare - 1
    /\ \E k \in DOMAIN query \ {KeyHash}, v \in TamperValues :
        /\ v # query[k]
        /\ query' = [query EXCEPT ![k] = v]
    /\ UNCHANGED <<signed, botToken, config, values, call, result>>

CallVerify ==
    /\ call = "none"
    /\ call' = "Verify"
    /\ result' = Verify(query, botToken, WallClock)
    /\ UNCHANGED <<signed, query, botToken, config, values, spare>>

CallVerifyWithConfig ==
    /\ call = "none"
    /\ call' = "VerifyWithConfig"
    /\ result' = VerifyWithConfig(query, botToken, config, WallClock)
    /\ UNCHANGED <<signed, query, botToken, config, values, spare>>

CallVerifyURLValues ==
    /\ call = "none"
    /\ \E later \in LaterValues :
        values' = [k \in DOMAIN query |->
                    IF k = KeyID THEN <<query[k]>> \o later ELSE <<query[k]>>]
    /\ call' = "VerifyURLValues"
    /\ result' = VerifyURLValues(values', botToken, WallClock)
    /\ UNCHANGED <<signed, query, botToken, config, spare>>

Next == Tamper \/ CallVerify \/ CallVerifyWithConfig \/ CallVerifyURLValues

Spec == Init /\ [][Next]_vars

----------------------------------------------------------------------------
\* Vocabulary of the properties, stated on the inputs of the call that ran.

Ran == call # "none"
RanCore == call \in {"Verify", "VerifyWithConfig"}

\* The policy of the call: Verify and VerifyURLValues pass VerifyConfig{}.
Policy == IF call = "VerifyWithConfig" THEN config ELSE ZeroConfig

\* The freshness window of the call, in ticks since the epoch.
MaxAge == IF Policy.AuthTTL > 0 THEN Policy.AuthTTL ELSE 5 * 60 * Second
MaxSkew == IF Policy.ClockSkew > 0 THEN Policy.ClockSkew ELSE 30 * Second
NowTicks == IF Policy.Now = <<>> THEN Ticks(WallClock) ELSE Ticks(Policy.Now[1])

Blank(s) == \A i \in 1..Len(s) : s[i] \in {9, 10, 11, 12, 13, 32}

\* The text without the white space around it.
Core(s) ==
    IF Blank(s) THEN <<>>
    ELSE SubSeq(s, CHOOSE i \in 1..Len(s) : s[i] \notin {9, 10, 11, 12, 13, 32}
                                  /\ Blank(SubSeq(s, 1, i - 1)),
                   CHOOSE i \in 1..Len(s) : s[i] \notin {9, 10, 11, 12, 13, 32}
                                  /\ Blank(SubSeq(s, i + 1, Len(s))))

Field(k) == IF k \in DOMAIN query THEN query[k] ELSE <<>>
Present(k) == ~Blank(Field(k))

\* A base-10 integer: an optional sign and one or more digits.
Digits(s) == IF s # <<>> /\ s[1] \in {43, 45} THEN Tail(s) ELSE s
IsDecimal(s) ==
    /\ Digits(Core(s)) # <<>>
    /\ \A i \in 1..Len(Digits(Core(s))) : Digits(Core(s))[i] \in 48..57

RECURSIVE Magnitude(_)
Magnitude(d) ==
    IF d = <<>> THEN 0 ELSE 10 * Magnitude(SubSeq(d, 1, Len(d) - 1)) + d[Len(d)] - 48

Value(s) ==
    IF Core(s)[1] = 45 THEN -Magnitude(Digits(Core(s))) ELSE Magnitude(Digits(Core(s)))

IsInt64(s) == IsDecimal(s) /\ Value(s) >= -(2^(IntBits - 1)) /\ Value(s) <= 2^(IntBits - 1) - 1

ToLower(s) == [i \in 1..Len(s) |-> IF s[i] >= 65 /\ s[i] <= 90 THEN s[i] + 32 ELSE s[i]]

\* The hash field is the hex HMAC of the other fields under the trimmed secret.
SignatureOf(q, token) ==
    /\ KeyHash \in DOMAIN q
    /\ ToLower(Core(q[KeyHash])) = signQuery(q, Core(token))
HashMatches == SignatureOf(query, botToken)

\* The request reaches the id and auth_date checks.
Authentic == ~Blank(botToken) /\ Present(KeyHash) /\ HashMatches

IDPositive == IsInt64(Field(KeyID)) /\ Value(Field(KeyID)) > 0
DateTicks == Value(Field(KeyAuthDate)) * Second
InWindow ==
    /\ IsInt64(Field(KeyAuthDate))
    /\ NowTicks - MaxAge <= DateTicks
    /\ DateTicks <= NowTicks + MaxSkew

----------------------------------------------------------------------------
\* C1: VerifyWithConfig returns a nil error only if the trimmed secret is
\* non-empty, hash, id and auth_date are present after trimming, the hash is
\* the HMAC of the other fields, the id is an integer > 0 and the auth_date
\* lies within [now - maxAge, now + maxSkew]; on every error the record is the
\* empty AuthData.
C1_RecordOnlyWhenAllChecksPass ==
    RanCore =>
        /\ result.err = Nil =>
            /\ ~Blank(botToken)
            /\ Present(KeyHash) /\ Present(KeyID) /\ Present(KeyAuthDate)
            /\ HashMatches
            /\ IDPositive
            /\ InWindow
        /\ result.err # Nil => result.data = ZeroAuthData

\* C2 as stated: a request whose hash is the HMAC under the secret, whose id
\* is a positive base-10 integer and whose auth_date is within the window
\* succeeds, and the record repeats its fields.
RecordRepeatsFields ==
    /\ result.err = Nil
    /\ result.data.UserID = Value(Field(KeyID))
    /\ result.data.AuthDateUnix = Value(Field(KeyAuthDate))
    /\ result.data.Username = Field(KeyUsername)
    /\ result.data.FirstName = Field(KeyFirstName)
    /\ result.data.LastName = Field(KeyLastName)
    /\ result.data.PhotoURL = Field(KeyPhotoURL)

C2_AsStated ==
    (/\ RanCore
     /\ HashMatches
     /\ IsDecimal(Field(KeyID)) /\ Value(Field(KeyID)) > 0
     /\ InWindow)
        => RecordRepeatsFields

\* C2, amended: a request whose hash is the HMAC under the trimmed secret, the
\* secret not blank, whose id is a positive base-10 integer that fits a signed
\* 64-bit integer and whose auth_date is within the window succeeds, and the
\* record has UserID and AuthDateUnix equal to the input id and auth_date and
\* the four display fields copied verbatim, empty when absent.
C2_ValidRequestSucceeds ==
    (RanCore /\ Authentic /\ IDPositive /\ InWindow) => RecordRepeatsFields

C2_Witness ==
    /\ call = "VerifyWithConfig"
    /\ Authentic /\ IDPositive /\ InWindow
    /\ config.Now # <<>>
    /\ KeyPhotoURL \in DOMAIN query
    /\ result.err = Nil
    /\ result.data.Username = query[KeyUsername]

\* C3 as stated: after the value of any one field of a correctly signed
\* request is changed and the hash kept, Verify fails with
\* ErrTelegramHashInvalid.
Tampered ==
    /\ query # signed
    /\ ~Blank(botToken)
    /\ ~Blank(MapGet(signed, KeyHash))
    /\ SignatureOf(signed, botToken)

C3_AsStated ==
    (call = "Verify" /\ Tampered) => result.err = ErrTelegramHashInvalid

HasNewline(s) == \E i \in 1..Len(s) : s[i] = 10

NoNewlineSigned ==
    \A k \in DOMAIN signed \ {KeyHash} : ~HasNewline(k) /\ ~HasNewline(signed[k])

\* C3, amended: after the value of any one field of a correctly signed request
\* is changed and the hash kept, Verify fails with ErrTelegramHashInvalid,
\* provided no field name or value of the signed request, the hash aside,
\* holds a newline.
C3_TamperingDetected ==
    (call = "Verify" /\ Tampered /\ NoNewlineSigned)
        => result.err = ErrTelegramHashInvalid

C3_Witness ==
    /\ call = "Verify" /\ Tampered /\ NoNewlineSigned
    /\ KeyUsername \in DOMAIN query
    /\ query[KeyUsername] # signed[KeyUsername]
    /\ result.err = ErrTelegramHashInvalid

\* C4: with a secret that is not blank and a hash that is present but is not
\* the hex HMAC of the other fields (not hex, or hex of another secret or of
\* other fields), VerifyWithConfig returns ErrTelegramHashInvalid, whatever
\* the id and auth_date fields hold.
C4_BadSignatureOneError ==
    (RanCore /\ ~Blank(botToken) /\ Present(KeyHash) /\ ~HashMatches)
        => result = Fail(ErrTelegramHashInvalid)

C4_Witness ==
    /\ RanCore /\ ~Blank(botToken) /\ Present(KeyHash) /\ ~HashMatches
    /\ ~DecodeString(Core(Field(KeyHash))).ok
    /\ ~Present(KeyID)
    /\ result.err = ErrTelegramHashInvalid

C6_FutureBoundary ==
    (RanCore /\ Authentic /\ IDPositive /\ IsInt64(Field(KeyAuthDate))) =>
        /\ DateTicks = NowTicks + MaxSkew => result.err = Nil
        /\ DateTicks > NowTicks + MaxSkew => result.err = ErrTelegramAuthDateFuture

\* C7: with a valid signature and a positive id, an auth_date exactly maxAge
\* older than now succeeds, every auth_date at least one second older fails
\* with ErrTelegramAuthDateExpired, and that error is returned only for an
\* auth_date older than now - maxAge.
C7_ExpiredBoundary ==
    (RanCore /\ Authentic /\ IDPositive /\ IsInt64(Field(KeyAuthDate))) =>
        /\ NowTicks - DateTicks = MaxAge => result.err = Nil
        /\ NowTicks - DateTicks >= MaxAge + Second =>
            result.err = ErrTelegramAuthDateExpired
        /\ result.err = ErrTelegramAuthDateExpired => NowTicks - DateTicks > MaxAge

\* C8: with an empty or whitespace-only secret, Verify, VerifyURLValues and
\* VerifyWithConfig return ErrBotTokenRequired and the empty record, whatever
\* the request and the policy.
C8_BlankSecretRejected ==
    (Ran /\ Blank(botToken)) => result = Fail(ErrBotTokenRequired)

C8_Witness ==
    /\ Ran /\ Blank(botToken) /\ botToken # <<>>
    /\ ~Present(KeyID)
    /\ result.err = ErrBotTokenRequired

\* C9: VerifyURLValues returns what Verify returns on the mapping with the
\* same keys and, for each key, the first of its values.
FirstValues == [k \in DOMAIN values |-> Head(values[k])]

C9_AdapterTakesFirstValue ==
    call = "VerifyURLValues" => result = Verify(FirstValues, botToken, WallClock)

C9_Witness ==
    /\ call = "VerifyURLValues"
    /\ KeyID \in DOMAIN values
    /\ Len(values[KeyID]) = 2
    /\ values[KeyID][1] # values[KeyID][2]
    /\ result.err = Nil
    /\ result.data.UserID = 42

\* C10: VerifyWithConfig with a maximum age <= 0 returns what it returns with
\* a maximum age of 5 minutes, with a maximum skew <= 0 what it returns with a
\* maximum skew of 30 seconds, and Verify returns what VerifyWithConfig returns
\* with both.
C10_NonPositiveMeansDefault ==
    /\ (call = "VerifyWithConfig" /\ config.AuthTTL <= 0) =>
        result = VerifyWithConfig(query, botToken,
                    [config EXCEPT !.AuthTTL = 5 * 60 * Second], WallClock)
    /\ (call = "VerifyWithConfig" /\ config.ClockSkew <= 0) =>
        result = VerifyWithConfig(query, botToken,
                    [config EXCEPT !.ClockSkew = 30 * Second], WallClock)
    /\ call = "Verify" =>
        result = VerifyWithConfig(query, botToken,
                    [AuthTTL |-> 5 * 60 * Second, ClockSkew |-> 30 * Second,
                     Now |-> <<>>], WallClock)

C10_Witness ==
    /\ call = "VerifyWithConfig"
    /\ config.AuthTTL < 0
    /\ Authentic /\ IDPositive /\ IsInt64(Field(KeyAuthDate))
    /\ NowTicks - DateTicks = 5 * 60 * Second
    /\ result.err = Nil

====
